---- MODULE Spec2Model ----
(***************************************************************************)
(* A model of verypy/util.py: the OrderedDictSet class (a dict used as an  *)
(* insertion-ordered set with a lazily built positional index) and the     *)
(* pure solution utilities is_better_sol, sol2routes, sol2edgeset,         *)
(* routes2sol, objf and produce_nn_list.                                   *)
(*                                                                         *)
(* Python's None is modelled as the empty tuple and a present value x as   *)
(* the one-element tuple <<x>>.                                            *)
(***************************************************************************)
EXTENDS Integers, Sequences, FiniteSets, TLC

VARIABLES
  ods,        \* OrderedDictSet.ods: the dict's keys, in the dict's order
  keylist,    \* OrderedDictSet.keylist: None, or Some(list of keys)
  op,         \* the last method called on the set, with its argument
  ret,        \* how that call ended: a returned value or the exception raised
  present,    \* history: the elements added and not removed since
  firstIns,   \* history: per element, the time of its first insertion (0: never)
  lastIns,    \* history: per element, the time of its latest insertion while absent
  nInserted,  \* history: the number of insertions of an absent element
  nRemoved,   \* history: the number of elements removed
  clock,      \* history: the number of insertions requested so far
  fn,         \* the pure function under call
  args,       \* its arguments
  out,        \* its result, once it returned
  pc          \* "call" before the function ran, "done" after

setVars  == <<ods, keylist, op, ret, present, firstIns, lastIns, nInserted, nRemoved, clock>>
pureVars == <<fn, args, out, pc>>
vars     == <<ods, keylist, op, ret, present, firstIns, lastIns, nInserted, nRemoved, clock,
              fn, args, out, pc>>

None    == <<>>
Some(x) == <<x>>
Val(o)  == o[1]

-----------------------------------------------------------------------------
(* Bounds of the model *)

NumElems == 2     \* the elements a set may hold are 1..NumElems
MaxInit  == 2     \* the longest initial collection
MaxOps   == 2     \* add is callable while clock < MaxInit + MaxOps
MaxIndex == 1     \* positional indices tried are -MaxIndex..MaxIndex

Elems   == 1..NumElems
Indices == (0 - MaxIndex)..MaxIndex

SeqsUpTo(S, n) == UNION {[1..k -> S] : k \in 0..n}

-----------------------------------------------------------------------------
(* The dict behind OrderedDictSet: a sequence of distinct keys *)

Contains(d, e) == \E i \in 1..Len(d) : d[i] = e

Range(d) == {d[i] : i \in 1..Len(d)}

NoDuplicates(d) == \A i, j \in 1..Len(d) : i # j => d[i] # d[j]

\* A store that appends the key even when the dict already holds it.
DictSetAlwaysAppends(d, e) == Append(d, e)

\* d[e] = None: a new key goes last, a key already held keeps its place.
DictSet(d, e) == IF Contains(d, e) THEN d ELSE Append(d, e)

\* del d[e] for a key the dict holds; d.pop(e, None) for any key.
DictPop(d, e) == SelectSeq(d, LAMBDA x : x # e)

\* dict.fromkeys(collection, None): the distinct keys, each at its first occurrence.
RECURSIVE fromkeys(_)
fromkeys(collection) ==
  IF collection = <<>> THEN <<>>
  ELSE DictSet(fromkeys(SubSeq(collection, 1, Len(collection) - 1)),
               collection[Len(collection)])

\* Python's truth value of self.keylist: neither None nor the empty list.
Truthy(kl) == kl # None /\ Val(kl) # <<>>

\* list[index], Python's negative indices included.
ListIndex(l, index) ==
  IF 0 <= index /\ index < Len(l) THEN [kind |-> "ok", val |-> Some(l[index + 1])]
  ELSE IF index < 0 /\ 0 - index <= Len(l)
         THEN [kind |-> "ok", val |-> Some(l[Len(l) + index + 1])]
         ELSE [kind |-> "IndexError", val |-> None]

FirstIndex(c, e) == CHOOSE i \in 1..Len(c) : c[i] = e /\ \A j \in 1..(i - 1) : c[j] # e

-----------------------------------------------------------------------------
(* OrderedDictSet *)

\* No pure function is under call while the set is exercised, and no set exists
\* while a pure function is.
IdlePure == fn = "none" /\ args = None /\ out = None /\ pc = "idle"

IdleSet ==
  /\ ods = <<>> /\ keylist = None
  /\ op = [name |-> "none", arg |-> None]
  /\ ret = [kind |-> "ok", val |-> None]
  /\ present = {} /\ firstIns = <<>> /\ lastIns = <<>>
  /\ nInserted = 0 /\ nRemoved = 0 /\ clock = 0

\* __init__(collection)
InitSet ==
  /\ \E collection \in SeqsUpTo(Elems, MaxInit) :
       /\ ods = fromkeys(collection)
       /\ present = Range(collection)
       /\ firstIns = [e \in Elems |-> IF Contains(collection, e)
                                        THEN FirstIndex(collection, e) ELSE 0]
       /\ lastIns = [e \in Elems |-> IF Contains(collection, e)
                                       THEN FirstIndex(collection, e) ELSE 0]
       /\ clock = Len(collection)
  /\ keylist = None
  /\ op = [name |-> "init", arg |-> None]
  /\ ret = [kind |-> "ok", val |-> None]
  /\ nInserted = Len(ods)
  /\ nRemoved = 0
  /\ IdlePure

\* A remove that drops the cached index before the deletion can fail.
removeInvalidatesFirst(element) ==
  /\ op' = [name |-> "remove", arg |-> Some(element)]
  /\ keylist' = None
  /\ IF Contains(ods, element)
       THEN /\ ods' = DictPop(ods, element)
            /\ ret' = [kind |-> "ok", val |-> None]
            /\ present' = present \ {element}
            /\ nRemoved' = nRemoved + 1
       ELSE /\ ret' = [kind |-> "KeyError", val |-> None]
            /\ UNCHANGED <<ods, present, nRemoved>>
  /\ UNCHANGED <<firstIns, lastIns, nInserted, clock, pureVars>>

\* remove(element): del raises KeyError for an absent key, before keylist is reset.
remove(element) ==
  /\ op' = [name |-> "remove", arg |-> Some(element)]
  /\ IF Contains(ods, element)
       THEN /\ ods' = DictPop(ods, element)
            /\ keylist' = None
            /\ ret' = [kind |-> "ok", val |-> None]
            /\ present' = present \ {element}
            /\ nRemoved' = nRemoved + 1
       ELSE /\ ret' = [kind |-> "KeyError", val |-> None]
            /\ UNCHANGED <<ods, keylist, present, nRemoved>>
  /\ UNCHANGED <<firstIns, lastIns, nInserted, clock, pureVars>>

\* add(element)
add(element) ==
  /\ clock < MaxInit + MaxOps
  /\ op' = [name |-> "add", arg |-> Some(element)]
  /\ ods' = DictSet(ods, element)
  /\ keylist' = IF Truthy(keylist) THEN Some(Append(Val(keylist), element)) ELSE keylist
  /\ ret' = [kind |-> "ok", val |-> None]
  /\ clock' = clock + 1
  /\ present' = present \cup {element}
  /\ IF element \in present
       THEN UNCHANGED <<firstIns, lastIns, nInserted>>
       ELSE /\ lastIns' = [lastIns EXCEPT ![element] = clock + 1]
            /\ firstIns' = IF firstIns[element] = 0
                             THEN [firstIns EXCEPT ![element] = clock + 1]
                             ELSE firstIns
            /\ nInserted' = nInserted + 1
  /\ UNCHANGED <<nRemoved, pureVars>>

RECURSIVE PopAll(_, _)
PopAll(d, collection) ==
  IF collection = {} THEN d
  ELSE LET e == CHOOSE x \in collection : TRUE
       IN  PopAll(DictPop(d, e), collection \ {e})

\* difference_update(collection)
difference_update(collection) ==
  /\ op' = [name |-> "difference_update", arg |-> Some(collection)]
  /\ ods' = PopAll(ods, collection)
  /\ keylist' = None
  /\ ret' = [kind |-> "ok", val |-> None]
  /\ present' = present \ collection
  /\ nRemoved' = nRemoved + Cardinality(present \cap collection)
  /\ UNCHANGED <<firstIns, lastIns, nInserted, clock, pureVars>>

\* The cached index after __getitem__'s first two lines.
getitem_keylist(kl, d) == IF kl = None THEN Some(d) ELSE kl

\* __getitem__(index): the index is rebuilt when it is None, then read.
getitem(index) ==
  /\ op' = [name |-> "getitem", arg |-> Some(index)]
  /\ keylist' = getitem_keylist(keylist, ods)
  /\ ret' = ListIndex(Val(keylist'), index)
  /\ UNCHANGED <<ods, present, firstIns, lastIns, nInserted, nRemoved, clock, pureVars>>

\* __iter__ and __len__ read the dict and change nothing.
iter == ods
len  == Len(ods)

NextSet ==
  \/ \E element \in Elems : add(element)
  \/ \E element \in Elems : remove(element)
  \/ \E collection \in SUBSET Elems : difference_update(collection)
  \/ \E index \in Indices : getitem(index)

NextAddRemove ==
  \/ \E element \in Elems : add(element)
  \/ \E element \in Elems : remove(element)

SpecSet == InitSet /\ [][NextSet]_vars

SpecAddRemove == InitSet /\ [][NextAddRemove]_vars

-----------------------------------------------------------------------------
(* Claims about OrderedDictSet *)

EverAdded == {e \in Elems : firstIns[e] > 0}

\* C1, as stated: after any adds and removes, iteration yields exactly the
\* still-present elements, each once, in the order of their FIRST insertion, and
\* the length is the number of distinct elements ever added minus the number of
\* elements removed.
C1_FirstInsertionOrder ==
  /\ Range(iter) = present
  /\ NoDuplicates(iter)
  /\ \A i, j \in 1..Len(iter) : i < j => firstIns[iter[i]] < firstIns[iter[j]]
  /\ len = Cardinality(EverAdded) - nRemoved

\* C1, amended: after any adds and removes, iteration yields exactly the
\* still-present elements, each once, in the order of their LATEST insertion
\* while absent (an element removed and added again goes last), and the length
\* is the number of insertions of an absent element, the initial ones included,
\* minus the number of elements removed.
C1_LatestInsertionOrder ==
  /\ Range(iter) = present
  /\ NoDuplicates(iter)
  /\ \A i, j \in 1..Len(iter) : i < j => lastIns[iter[i]] < lastIns[iter[j]]
  /\ len = nInserted - nRemoved

\* C1's case: an element was removed and added again behind another element,
\* and an add of an element already present has happened too.
C1_Witness ==
  /\ op.name = "add"
  /\ Len(ods) >= 2
  /\ nRemoved > 0
  /\ \E e \in present : firstIns[e] # lastIns[e]
  /\ clock > nInserted

\* What set[index] returns or raises in the current state.
getitem_ret(index) == ListIndex(Val(getitem_keylist(keylist, ods)), index)

\* C2: after any adds (of present elements too), removes, difference_updates
\* and indexed accesses (on the empty set too), set[i] is the i-th element of the
\* iteration order for every 0 <= i < len(set).
C2_IndexMatchesIteration ==
  \A i \in 0..(len - 1) : getitem_ret(i) = [kind |-> "ok", val |-> Some(iter[i + 1])]

\* C10: remove(e) on a set that does not hold e raises KeyError and leaves the
\* elements, their order, the length and the cached keylist as they were.
C10_FailedRemoveChangesNothing ==
  [][\A e \in Elems :
       (op'.name = "remove" /\ op'.arg = Some(e) /\ ~Contains(ods, e))
         => /\ ret'.kind = "KeyError"
            /\ ods' = ods
            /\ Len(ods') = Len(ods)
            /\ keylist' = keylist]_vars

\* C10's case: a remove of an absent element has just failed on a non-empty set
\* whose positional index was built.
C10_Witness ==
  /\ op.name = "remove"
  /\ ret.kind = "KeyError"
  /\ ods # <<>>
  /\ keylist # None

-----------------------------------------------------------------------------
(* is_better_sol *)

MaxVal == 2       \* objective values and vehicle counts are 0..MaxVal, or None

OptVals == {None} \cup {Some(v) : v \in 0..MaxVal}

\* A comparator under which an equal objective value wins the tie on vehicles.
is_better_sol_ties_win(best_f, best_K, sol_f, sol_K, minimize_K) ==
  IF sol_f = None \/ sol_K = None THEN FALSE
  ELSE IF best_f = None \/ best_K = None THEN TRUE
  ELSE IF minimize_K
         THEN \/ Val(sol_K) < Val(best_K)
              \/ (Val(sol_K) = Val(best_K) /\ Val(sol_f) <= Val(best_f))
         ELSE Val(sol_f) < Val(best_f)

is_better_sol(best_f, best_K, sol_f, sol_K, minimize_K) ==
  IF sol_f = None \/ sol_K = None THEN FALSE
  ELSE IF best_f = None \/ best_K = None THEN TRUE
  ELSE IF minimize_K
         THEN \/ Val(sol_K) < Val(best_K)
              \/ (Val(sol_K) = Val(best_K) /\ Val(sol_f) < Val(best_f))
         ELSE Val(sol_f) < Val(best_f)

InitCmp ==
  /\ IdleSet
  /\ fn = "is_better_sol"
  /\ args \in [best_f : OptVals, best_K : OptVals, sol_f : OptVals, sol_K : OptVals,
               minimize_K : BOOLEAN]
  /\ out = None
  /\ pc = "call"

call_is_better_sol ==
  /\ pc = "call" /\ fn = "is_better_sol"
  /\ out' = Some(is_better_sol(args.best_f, args.best_K, args.sol_f, args.sol_K,
                               args.minimize_K))
  /\ pc' = "done"
  /\ UNCHANGED <<fn, args, setVars>>

SpecCmp == InitCmp /\ [][call_is_better_sol]_vars

\* C3: is_better_sol returns True exactly when the candidate's objective and
\* vehicle count are both present and either the incumbent's objective or count
\* is absent, or (minimize_K) the candidate has fewer vehicles or as many and a
\* lower objective, or (not minimize_K) the candidate has a lower objective
\* whatever the vehicle counts; it returns False in every other case.
C3_ComparatorContract ==
  (fn = "is_better_sol" /\ pc = "done") =>
    LET candidateWins ==
          /\ args.sol_f # None
          /\ args.sol_K # None
          /\ \/ args.best_f = None
             \/ args.best_K = None
             \/ /\ args.minimize_K
                /\ \/ args.sol_K[1] < args.best_K[1]
                   \/ (args.sol_K[1] = args.best_K[1] /\ args.sol_f[1] < args.best_f[1])
             \/ (~args.minimize_K /\ args.sol_f[1] < args.best_f[1])
    IN  /\ candidateWins => out = Some(TRUE)
        /\ ~candidateWins => out = Some(FALSE)

\* C3's case: vehicles are minimized, the counts tie and the objectives tie too,
\* so the candidate loses.
C3_Witness ==
  /\ fn = "is_better_sol" /\ pc = "done"
  /\ args.minimize_K
  /\ args.sol_f # None /\ args.sol_K # None /\ args.best_f # None /\ args.best_K # None
  /\ args.sol_K = args.best_K
  /\ args.sol_f = args.best_f
  /\ out = Some(FALSE)

-----------------------------------------------------------------------------
(* sol2routes, sol2edgeset, routes2sol *)

MaxNode   == 2    \* node ids are 0..MaxNode; 0 is the depot
MaxSolLen == 4    \* the longest solution given to sol2routes and sol2edgeset
MaxWord   == 5    \* route lists given to routes2sol: total length plus separators

Nodes == 0..MaxNode
Sols  == SeqsUpTo(Nodes, MaxSolLen)

\* The route lists given to routes2sol are the empty list and every list of
\* routes whose nodes, with one separator between two routes, make a word of
\* at most MaxWord symbols: [[0,1,0],[2]] is the word 0 1 0 | 2.
Sep == 0 - 1

RECURSIVE SplitRoutes(_)
SplitRoutes(w) ==
  IF \A i \in 1..Len(w) : w[i] # Sep THEN <<w>>
  ELSE LET k == CHOOSE i \in 1..Len(w) : w[i] = Sep /\ \A j \in 1..(i - 1) : w[j] # Sep
       IN  <<SubSeq(w, 1, k - 1)>> \o SplitRoutes(SubSeq(w, k + 1, Len(w)))

RouteLists == {<<>>} \cup {SplitRoutes(w) : w \in SeqsUpTo(Nodes \cup {Sep}, MaxWord)}

\* itertools.groupby(sol, lambda z: z == 0): the maximal runs of elements with
\* the same key, each with its key x.
RECURSIVE groupby_is_depot(_)
groupby_is_depot(sol) ==
  IF sol = <<>> THEN <<>>
  ELSE LET x == (sol[1] = 0)
           k == CHOOSE i \in 1..Len(sol) :
                  /\ \A j \in 1..i : (sol[j] = 0) = x
                  /\ (i = Len(sol) \/ (sol[i + 1] = 0) # x)
       IN  <<[x |-> x, r |-> SubSeq(sol, 1, k)]>>
             \o groupby_is_depot(SubSeq(sol, k + 1, Len(sol)))

RECURSIVE WrapGroups(_, _)
WrapGroups(groups, keepDepotGroups) ==
  IF groups = <<>> THEN <<>>
  ELSE (IF keepDepotGroups \/ ~groups[1].x THEN << <<0>> \o groups[1].r \o <<0>> >> ELSE <<>>)
         \o WrapGroups(Tail(groups), keepDepotGroups)

\* A sol2routes whose comprehension lacks the filter `if not x`.
sol2routes_keeps_depot_groups(sol) ==
  IF sol = <<>> \/ Len(sol) <= 2 THEN <<>>
  ELSE WrapGroups(groupby_is_depot(sol), TRUE)

sol2routes(sol) ==
  IF sol = <<>> \/ Len(sol) <= 2 THEN <<>>
  ELSE WrapGroups(groupby_is_depot(sol), FALSE)

sol2edgeset(sol, symmetric) ==
  { IF symmetric \/ sol[i] < sol[i + 1]
      THEN <<sol[i], sol[i + 1]>>
      ELSE <<sol[i + 1], sol[i]>> : i \in 1..(Len(sol) - 1) }

\* A loop body that never closes the route with a depot visit.
routes2sol_step_no_closing_depot(sol, r) ==
  IF r = <<>> THEN sol
  ELSE IF r[1] = 0 THEN sol \o Tail(r) ELSE sol \o r

\* One pass of routes2sol's loop over route r.
routes2sol_step(sol, r) ==
  IF r = <<>> THEN sol
  ELSE LET appended == IF r[1] = 0 THEN sol \o Tail(r) ELSE sol \o r
       IN  IF appended[Len(appended)] # 0 THEN appended \o <<0>> ELSE appended

RECURSIVE routes2sol_loop(_, _)
routes2sol_loop(sol, routes) ==
  IF routes = <<>> THEN sol
  ELSE routes2sol_loop(routes2sol_step(sol, Head(routes)), Tail(routes))

routes2sol(routes) ==
  IF routes = <<>> THEN None ELSE Some(routes2sol_loop(<<0>>, routes))

NoArgs == [sol |-> <<>>, routes |-> <<>>, symmetric |-> FALSE]

InitCodec ==
  /\ IdleSet
  /\ \/ /\ fn = "sol2routes"
        /\ \E sol \in Sols : args = [NoArgs EXCEPT !.sol = sol]
     \/ /\ fn = "sol2edgeset"
        /\ \E sol \in Sols, symmetric \in BOOLEAN :
             args = [NoArgs EXCEPT !.sol = sol, !.symmetric = symmetric]
     \/ /\ fn = "routes2sol"
        /\ \E routes \in RouteLists : args = [NoArgs EXCEPT !.routes = routes]
  /\ out = None
  /\ pc = "call"

call_sol2routes ==
  /\ pc = "call" /\ fn = "sol2routes"
  /\ out' = Some(sol2routes(args.sol))
  /\ pc' = "done"
  /\ UNCHANGED <<fn, args, setVars>>

call_sol2edgeset ==
  /\ pc = "call" /\ fn = "sol2edgeset"
  /\ out' = Some(sol2edgeset(args.sol, args.symmetric))
  /\ pc' = "done"
  /\ UNCHANGED <<fn, args, setVars>>

call_routes2sol ==
  /\ pc = "call" /\ fn = "routes2sol"
  /\ out' = routes2sol(args.routes)
  /\ pc' = "done"
  /\ UNCHANGED <<fn, args, setVars>>

NextCodec ==
  \/ call_sol2routes
  \/ call_sol2edgeset
  \/ call_routes2sol

SpecCodec == InitCodec /\ [][NextCodec]_vars

-----------------------------------------------------------------------------
(* Claims about sol2edgeset, sol2routes and routes2sol *)

Reverse(s) == [i \in 1..Len(s) |-> s[Len(s) + 1 - i]]

NoEqualAdjacent(s) == \A i \in 1..(Len(s) - 1) : s[i] # s[i + 1]

HasCustomer(r) == \E i \in 1..Len(r) : r[i] # 0

\* C4: with symmetric=True every consecutive pair is stored smaller node first,
\* so every edge (x,y) has x <= y and a sequence and its reversal give the same
\* edge set; with symmetric=False every pair is stored as encountered.
C4_EdgeDirection ==
  (fn = "sol2edgeset" /\ pc = "done") =>
    IF args.symmetric
      THEN /\ \A e \in Val(out) : e[1] <= e[2]
           /\ Val(out) = sol2edgeset(Reverse(args.sol), TRUE)
      ELSE Val(out) = {<<args.sol[i], args.sol[i + 1]>> : i \in 1..(Len(args.sol) - 1)}

\* The route lists C5 is about: not empty, a customer in every route, no two
\* equal adjacent nodes in a route.
RoundTripInput(routes) ==
  /\ routes # <<>>
  /\ \A k \in 1..Len(routes) : HasCustomer(routes[k]) /\ NoEqualAdjacent(routes[k])

\* C5: for such a route list, with s = routes2sol(routes), decomposing s with
\* sol2routes and assembling the routes again gives s.
C5_RoundTrip ==
  (fn = "routes2sol" /\ pc = "done" /\ RoundTripInput(args.routes)) =>
    routes2sol(sol2routes(Val(out))) = out

\* C5's case: two routes, one given with its leading depot and one given
\* without a closing depot, assembled into a solution with an interior depot.
C5_Witness ==
  /\ fn = "routes2sol" /\ pc = "done" /\ RoundTripInput(args.routes)
  /\ Len(args.routes) >= 2
  /\ \E k \in 1..Len(args.routes) : args.routes[k][1] = 0
  /\ \E k \in 1..Len(args.routes) : args.routes[k][Len(args.routes[k])] # 0
  /\ Len(sol2routes(Val(out))) = 2

\* C6: no route returned by sol2routes holds two equal adjacent elements: runs of
\* duplicate values, customers as well as depots, are collapsed.
C6_NoAdjacentDuplicates ==
  (fn = "sol2routes" /\ pc = "done") =>
    \A k \in 1..Len(Val(out)) : NoEqualAdjacent(Val(out)[k])

\* C7: routes2sol returns None for an empty route list; for a non-empty one the
\* result starts with 0, and it ends with 0 when some route is not empty.
C7_DepotBounds ==
  (fn = "routes2sol" /\ pc = "done") =>
    /\ args.routes = <<>> => out = None
    /\ args.routes # <<>> =>
         /\ out # None
         /\ Val(out) # <<>>
         /\ Val(out)[1] = 0
         /\ (\E k \in 1..Len(args.routes) : args.routes[k] # <<>>)
              => Val(out)[Len(Val(out))] = 0

\* C7's case: an empty route was skipped and a route given without depot bounds
\* was closed with a depot visit.
C7_Witness ==
  /\ fn = "routes2sol" /\ pc = "done"
  /\ \E k \in 1..Len(args.routes) : args.routes[k] = <<>>
  /\ \E k \in 1..Len(args.routes) :
       /\ args.routes[k] # <<>>
       /\ args.routes[k][1] # 0
       /\ args.routes[k][Len(args.routes[k])] # 0
  /\ out # None
  /\ Val(out)[Len(Val(out))] = 0

-----------------------------------------------------------------------------
(* objf *)

MaxObjNode == 1   \* objf is called with node ids 0..MaxObjNode
MaxObjLen  == 5   \* and with sequences of at most MaxObjLen nodes

ObjNodes == 0..MaxObjNode

\* objf is linear in the entries of D, so two sums of entries that differ for
\* some table differ for a table of zeros and ones.
Dists == {0, 1}

Tables == [ObjNodes \X ObjNodes -> Dists]

\* objf is given solutions and routes: sequences from depot to depot.
DepotBounded(sol) == sol # <<>> /\ sol[1] = 0 /\ sol[Len(sol)] = 0

ObjSols == {sol \in SeqsUpTo(ObjNodes, MaxObjLen) : DepotBounded(sol)}

RECURSIVE SumLegs(_, _, _)
SumLegs(sol, D, from) ==
  IF from > Len(sol) THEN 0
  ELSE D[<<sol[from - 1], sol[from]>>] + SumLegs(sol, D, from + 1)

\* An objf whose range starts one leg late.
objf_skips_first_leg(sol, D) == SumLegs(sol, D, 3)

\* sum(D[sol[i-1], sol[i]] for i in range(1, len(sol)))
objf(sol, D) == SumLegs(sol, D, 2)

InitObjf ==
  /\ IdleSet
  /\ fn = "objf"
  /\ \E sol \in ObjSols, D \in Tables : args = [sol |-> sol, D |-> D]
  /\ out = None
  /\ pc = "call"

call_objf ==
  /\ pc = "call" /\ fn = "objf"
  /\ out' = Some(objf(args.sol, args.D))
  /\ pc' = "done"
  /\ UNCHANGED <<fn, args, setVars>>

SpecObjf == InitObjf /\ [][call_objf]_vars

RECURSIVE SumOverRoutes(_, _)
SumOverRoutes(routes, D) ==
  IF routes = <<>> THEN 0
  ELSE objf(Head(routes), D) + SumOverRoutes(Tail(routes), D)

NoAdjacentDepots(sol) == \A i \in 1..(Len(sol) - 1) : ~(sol[i] = 0 /\ sol[i + 1] = 0)

\* C8, as stated: for every solution from depot to depot, repeated depot visits
\* allowed, and every table D, objf(sol, D) is the sum of objf(r, D) over the
\* routes r of sol2routes(sol).
C8_Additive ==
  (fn = "objf" /\ pc = "done" /\ DepotBounded(args.sol)) =>
    Val(out) = SumOverRoutes(sol2routes(args.sol), args.D)

\* C8, amended: the same, for the solutions with no two adjacent depot visits
\* and, when D[0,0] = 0, for every solution from depot to depot.
C8_AdditiveWithoutDepotLoops ==
  (/\ fn = "objf" /\ pc = "done" /\ DepotBounded(args.sol)
   /\ (NoAdjacentDepots(args.sol) \/ args.D[<<0, 0>>] = 0)) =>
    Val(out) = SumOverRoutes(sol2routes(args.sol), args.D)

\* C8's case: a solution of two routes under a table that charges every leg
\* travelled, the depot's own loop included.
C8_Witness ==
  /\ fn = "objf" /\ pc = "done" /\ DepotBounded(args.sol)
  /\ Len(sol2routes(args.sol)) = 2
  /\ args.D[<<0, 0>>] = 1
  /\ Val(out) = Len(args.sol) - 1

-----------------------------------------------------------------------------
(* produce_nn_list *)

MaxDim    == 2    \* D is a two-dimensional array of 1..MaxDim rows and columns
MaxNNDist == 2    \* whose entries are 0..MaxNNDist

\* D is indexed D[i,:], so it is a rectangular array: rows of one length.
Arrays ==
  UNION {[1..n -> [1..m -> 0..MaxNNDist]] : n \in 1..MaxDim, m \in 1..MaxDim}

\* enumerate(row): the pairs (index from 0, distance).
enumerate(row) == [j \in 1..Len(row) |-> <<j - 1, row[j]>>]

\* sorted(pairs, key=itemgetter(1)): a stable sort on the distance.
RECURSIVE sorted_by_distance(_)
sorted_by_distance(pairs) ==
  IF pairs = <<>> THEN <<>>
  ELSE LET front == sorted_by_distance(SubSeq(pairs, 1, Len(pairs) - 1))
           last  == pairs[Len(pairs)]
           k     == Cardinality({i \in 1..Len(front) : front[i][2] <= last[2]})
       IN  SubSeq(front, 1, k) \o <<last>> \o SubSeq(front, k + 1, Len(front))

\* No check of D's shape is made: every rectangular array gets its index.
produce_nn_list(D) ==
  [kind |-> "ok", val |-> Some([i \in 1..Len(D) |-> sorted_by_distance(enumerate(D[i]))])]

InitNN ==
  /\ IdleSet
  /\ fn = "produce_nn_list"
  /\ \E D \in Arrays : args = [D |-> D]
  /\ out = None
  /\ pc = "call"

call_produce_nn_list ==
  /\ pc = "call" /\ fn = "produce_nn_list"
  /\ out' = produce_nn_list(args.D)
  /\ pc' = "done"
  /\ UNCHANGED <<fn, args, setVars>>

SpecNN == InitNN /\ [][call_produce_nn_list]_vars

IsSquare(D) == \A i \in 1..Len(D) : Len(D[i]) = Len(D)

\* C9: for a table that is not square produce_nn_list fails with InvalidInput
\* and produces no neighbor index.
C9_RejectsNonSquare ==
  (fn = "produce_nn_list" /\ pc = "done" /\ ~IsSquare(args.D)) =>
    (out.kind = "InvalidInput" /\ out.val = None)

====
